---- MODULE Spec2Model ----
(***************************************************************************)
(* A model of poetry's wheel builder (poetry/masonry/builders/wheel.py):   *)
(* WheelBuilder.make_in and the build pipeline it drives, the archive      *)
(* writer (_add_file, _write_to_zip), the metadata members, the tag        *)
(* resolver and the file name normalisation; and of the dependency         *)
(* projection SdistBuilder.convert_dependencies.                           *)
(*                                                                         *)
(* Strings the code inspects character by character are sequences of       *)
(* one-character strings.  A path is the sequence of its components.       *)
(***************************************************************************)
EXTENDS Integers, Sequences, FiniteSets, TLC

\* ------------------------------------------------------------------ bounds

\* How many times another process may write to a source file during a build.
MaxEdits == 1

\* ------------------------------------------------------------ generic helpers

Range(s) == { s[i] : i \in 1..Len(s) }

Max(a, b) == IF a >= b THEN a ELSE b

Min(a, b) == IF a <= b THEN a ELSE b

\* All the sequences that list every element of S exactly once.
Perms(S) ==
  { s \in [1..Cardinality(S) -> S] : \A x \in S : \E i \in 1..Cardinality(S) : s[i] = x }

\* ------------------------------------------------------------------- paths

\* The file names of the model, in the order Python compares them as strings
\* (upper case before "_" before lower case).
Names ==
  << "COPYING", "LICENSE", "LICENSE.md", "METADATA", "README.rst", "RECORD",
     "WHEEL", "__init__.py", "entry_points.txt", "ext.so", "mod.py",
     "module1.py", "my_package", "my_package-1.2.3.dist-info", "src" >>

Code(n) == CHOOSE i \in 1..Len(Names) : Names[i] = n

\* PurePath.__lt__: the component lists compared lexicographically.
RECURSIVE PathLess(_, _)
PathLess(p, q) ==
  IF q = <<>> THEN FALSE
  ELSE IF p = <<>> THEN TRUE
  ELSE IF Head(p) = Head(q) THEN PathLess(Tail(p), Tail(q))
  ELSE Code(Head(p)) < Code(Head(q))

RECURSIVE Insert(_, _)
Insert(p, s) ==
  IF s = <<>> THEN <<p>>
  ELSE IF PathLess(Head(s), p) THEN <<Head(s)>> \o Insert(p, Tail(s))
  ELSE <<p>> \o s

\* sorted(files)
RECURSIVE Sorted(_)
Sorted(s) == IF s = <<>> THEN <<>> ELSE Insert(Head(s), Sorted(Tail(s)))

\* Path.relative_to(base): the path below base; ValueError when it is not below.
IsBelow(p, base) == Len(base) <= Len(p) /\ SubSeq(p, 1, Len(base)) = base

RelativeTo(p, base) == SubSeq(p, Len(base) + 1, Len(p))

\* Path.name
BaseName(p) == p[Len(p)]

\* Path.glob(base + "*") at the project root: the names a prefix matches.
GlobMatches(base) ==
  IF base = "COPYING" THEN {"COPYING"}
  ELSE IF base = "LICENSE" THEN {"LICENSE", "LICENSE.md"}
  ELSE {}

\* ------------------------------------------------------- digests and encodings

\* hashlib.sha256(b).digest(): collision-free on the inputs of the model.
Sha256(b) == << "sha256", b >>

\* urlsafe_b64encode(digest).decode("ascii").rstrip("="): one-to-one.
HashDigest(d) == << "b64url", d >>

\* The empty digest of a fresh hashlib.sha256().
NewHash == <<>>

\* hashsum.update(buf): the digest state is the bytes fed so far.
HashUpdate(acc, buf) == acc \o buf

\* One src.read(1024 * 8) at offset pos.
ChunkSize == 1024 * 8

ReadChunk(bytes, pos) == SubSeq(bytes, pos + 1, Min(Len(bytes), pos + ChunkSize))

\* The while-loop of _add_file: read chunk after chunk until a read is empty.
RECURSIVE HashPass(_, _, _)
HashPass(bytes, pos, acc) ==
  LET buf == ReadChunk(bytes, pos)
  IN  IF buf = <<>> THEN acc ELSE HashPass(bytes, pos + Len(buf), HashUpdate(acc, buf))

\* sio.getvalue().encode("utf-8") of a text member: the model keeps a text as
\* its lines and encodes line by line.
EncodeUtf8(text) == [ i \in 1..Len(text) |-> << "utf-8", text[i] >> ]

\* ------------------------------------------------------------ permissions

\* The st_mode values of the model: 0o600, 0o644, 0o700 and 0o755.
Modes == { 384, 420, 448, 493 }

\* st_mode & 0o100
OwnerExec(st_mode) == (st_mode \div 64) % 2 = 1

\* helpers.normalize_file_permissions: 755 for an executable, 644 otherwise.
NormalizeFilePermissions(st_mode) == IF OwnerExec(st_mode) THEN 493 ELSE 420

\* (new_mode & 0xFFFF) << 16
ExternalAttr(st_mode) == (NormalizeFilePermissions(st_mode) % 65536) * 65536

\* zipfile.ZipInfo(rel_path): the default date_time of a ZipInfo.
ZipInfoDefaultDate == << 1980, 1, 1, 0, 0, 0 >>

\* date_time = (2016, 1, 1, 0, 0, 0) of _write_to_zip.
FixedDate == << 2016, 1, 1, 0, 0, 0 >>

\* ------------------------------------------------------------- tag resolver

\* The interpreter versions of the model are 0..MaxVersion, 10 * major + minor.
MaxVersion == 45

Versions == 0..MaxVersion

\* A constraint is a set of ranges lo <= v < hi; hi = MaxVersion + 1 is "no
\* upper bound".
Unbounded == MaxVersion + 1

\* parse_constraint(">=2.0.0 <3.0.0")
Python2Range == { [lo |-> 20, hi |-> 30] }

\* VersionConstraint.allows_any: some range of c overlaps some range of d.
AllowsAny(c, d) ==
  \E r \in c : \E s \in d : Max(r.lo, s.lo) < Min(r.hi, s.hi)

\* The values of package.build: Python's None is the string "None"; "" is the
\* empty string, "build.py" a build script.
BuildSettings == { "None", "", "build.py" }

\* Python's truth value of package.build.
Truthy(build) == build \notin { "None", "" }

\* package.build is None
IsNone(build) == build = "None"

\* supports_python2 asking allows_all: every version of the 2.x series.
SupportsPython2_AllowsAll(python) ==
  \A v \in Versions : 20 <= v /\ v < 30 => \E r \in python : r.lo <= v /\ v < r.hi

\* WheelBuilder.supports_python2
SupportsPython2(python) == AllowsAny(python, Python2Range)

\* str.replace(old, new) on a sequence of characters.
RECURSIVE Replace(_, _, _)
Replace(s, old, new) ==
  IF s = <<>> THEN <<>>
  ELSE << IF Head(s) = old THEN new ELSE Head(s) >> \o Replace(Tail(s), old, new)

\* str.lower() on the characters of the model.
LowerChar(c) ==
  CASE c = "C" -> "c" [] c = "P" -> "p" [] c = "M" -> "m" [] c = "N" -> "n"
    [] OTHER -> c

Lower(s) == [ i \in 1..Len(s) |-> LowerChar(s[i]) ]

\* get_abi_tag may return None: << "None" >> stands for Python's None.
PyNone == << "None" >>

\* str(x)
Str(x) == IF x = PyNone THEN << "N", "o", "n", "e" >> ELSE x

\* "-".join(tag)
JoinDash(t) == t[1] \o << "-" >> \o t[2] \o << "-" >> \o t[3]

\* WheelBuilder.tag
Tag(build, python, venv) ==
  IF Truthy(build)
  THEN LET platform == Replace(Replace(venv.platform, ".", "_"), "-", "_")
           impl == venv.impl_name \o venv.impl_ver
           abi_tag == Lower(Str(venv.abi))
       IN  JoinDash(<< impl, abi_tag, platform >>)
  ELSE LET impl == IF SupportsPython2(python)
                   THEN << "p", "y", "2", ".", "p", "y", "3" >>
                   ELSE << "p", "y", "3" >>
       IN  JoinDash(<< impl, << "n", "o", "n", "e" >>, << "a", "n", "y" >> >>)

\* pure_lib of _write_wheel_file
PureLib(build) == IF IsNone(build) THEN "true" ELSE "false"


\* ------------------------------------------------------------------- state

VARIABLES
  pc,         \* where make_in is
  exc,        \* the step that raised the exception in flight, "" when none
  target,     \* the target directory: its temporary file and the final name
  wheel_zip,  \* the members written to the container, in order
  records,    \* WheelBuilder._records
  work,       \* the files the running for-loop still has to visit
  cur,        \* the locals of the running _add_file call
  tree,       \* the project's files: path -> bytes, st_mode, mtime
  pkg,        \* the package description; lib: its build leaves a build/lib.*
  venv,       \* what the target environment answers
  world,      \* had_old: an archive was at the final name; clock: wall clock
  edits,      \* writes by other processes to source files so far
  run,        \* which build of the same project this is
  first_zip,  \* the container the first build produced
  arg,        \* the input of a pure function under check
  out         \* its result

vars ==
  << pc, exc, target, wheel_zip, records, work, cur, tree, pkg, venv, world,
     edits, run, first_zip, arg, out >>

DistInfo == "my_package-1.2.3.dist-info"

\* self.dist_info + "/" + name
InDistInfo(name) == << DistInfo, name >>

NoCall == [full |-> <<>>, rel |-> <<>>, attr |-> 0, hash |-> NewHash, ret |-> ""]

\* The files of a project of each layout, without its licence files.
LayoutFiles(layout) ==
  CASE layout = "package" ->
         { << "my_package", "__init__.py" >>, << "my_package", "mod.py" >> }
    [] layout = "src" ->
         { << "src", "my_package", "__init__.py" >>, << "src", "my_package", "mod.py" >> }
    [] layout = "module" -> { << "module1.py" >> }

Layouts == { "package", "src", "module" }

\* The licence files a project root may hold.
LicenceSets == { {}, { << "LICENSE" >> }, { << "COPYING" >>, << "LICENSE.md" >> } }

\* A file as first written: two bytes, named after the file.
FileOf(p, clock) ==
  [ bytes |-> << Code(BaseName(p)), Len(p) >>,
    st_mode |-> IF BaseName(p) = "mod.py" THEN 493 ELSE IF Len(p) = 1 THEN 384 ELSE 420,
    mtime |-> clock ]

TreeOf(files, clock) == [ p \in files |-> FileOf(p, clock) ]

AnyPython == { [lo |-> 0, hi |-> Unbounded] }

Python36Up == { [lo |-> 36, hi |-> Unbounded] }

Venvs ==
  { [ impl_name |-> << "c", "p" >>, impl_ver |-> << "3", "6" >>,
      abi |-> << "C", "P", "3", "6", "m" >>,
      platform |-> << "m", "a", "c", "-", "1", "0", ".", "9" >> ] }

Init ==
  /\ pc = "mkstemp"
  /\ exc = ""
  /\ world \in [ had_old : BOOLEAN, clock : {1} ]
  /\ target = [ temp |-> "absent", final |-> IF world.had_old THEN "old" ELSE "absent" ]
  /\ wheel_zip = <<>>
  /\ records = <<>>
  /\ work = <<>>
  /\ cur = NoCall
  /\ pkg \in [ build : BuildSettings, python : { AnyPython, Python36Up },
               scripts : BOOLEAN, layout : Layouts, lib : BOOLEAN ]
  /\ pkg.lib => Truthy(pkg.build)
  /\ \E lic \in LicenceSets : tree = TreeOf(LayoutFiles(pkg.layout) \cup lic, world.clock)
  /\ venv \in Venvs
  /\ edits = 0
  /\ run = 1
  /\ first_zip = <<>>
  /\ arg = <<>>
  /\ out = <<>>

\* ----------------------------------------------------------- archive writer

\* zipfile.ZipFile.writestr gives a member without permission bits 0o600.
DefaultAttr == 384 * 65536

\* _write_to_zip, after the caller wrote text to the buffer: the member.
TextMember(rel_path, text) ==
  [ path |-> rel_path, data |-> EncodeUtf8(text), external_attr |-> DefaultAttr,
    date_time |-> FixedDate ]

\* _write_to_zip: the entry it appends to _records.
TextRecord(rel_path, text) ==
  LET b == EncodeUtf8(text)
  IN  << rel_path, HashDigest(Sha256(b)), Len(b) >>

\* The whole of _write_to_zip as a step of make_in.
WriteToZip(rel_path, text) ==
  /\ wheel_zip' = Append(wheel_zip, TextMember(rel_path, text))
  /\ records' = Append(records, TextRecord(rel_path, text))

\* _add_file, lines 220-243: the ZipInfo with its permission bits, then the
\* chunked read that feeds the digest.
AddFileHash ==
  /\ pc = "add_file"
  /\ cur' = [ cur EXCEPT !.attr = ExternalAttr(tree[cur.full].st_mode),
                         !.hash = HashPass(tree[cur.full].bytes, 0, NewHash) ]
  /\ pc' = "add_store"
  /\ UNCHANGED << exc, target, wheel_zip, records, work, tree, pkg, venv, world,
                  edits, run, first_zip, arg, out >>

\* The member _add_file stores: src.seek(0), src.read(), writestr.
FileMember(rel_path, attr, bytes) ==
  [ path |-> rel_path, data |-> bytes, external_attr |-> attr,
    date_time |-> ZipInfoDefaultDate ]

\* _add_file, lines 245-246.
AddFileStore ==
  /\ pc = "add_store"
  /\ wheel_zip' = Append(wheel_zip, FileMember(cur.rel, cur.attr, tree[cur.full].bytes))
  /\ pc' = "add_record"
  /\ UNCHANGED << exc, target, records, work, cur, tree, pkg, venv, world, edits,
                  run, first_zip, arg, out >>

\* The entry _add_file appends to _records: the size is a fresh os.stat.
FileRecord(rel_path, hash, st_size) == << rel_path, HashDigest(Sha256(hash)), st_size >>

\* _add_file returning without its entry in _records.
AddFileRecord_NoAppend ==
  /\ pc = "add_record"
  /\ pc' = cur.ret
  /\ cur' = NoCall
  /\ UNCHANGED << exc, target, wheel_zip, records, work, tree, pkg, venv, world, edits,
                  run, first_zip, arg, out >>

\* _add_file, lines 248-251.
AddFileRecord ==
  /\ pc = "add_record"
  /\ records' = Append(records, FileRecord(cur.rel, cur.hash, Len(tree[cur.full].bytes)))
  /\ pc' = cur.ret
  /\ cur' = NoCall
  /\ UNCHANGED << exc, target, wheel_zip, work, tree, pkg, venv, world, edits, run,
                  first_zip, arg, out >>

\* Another process appends to the source file _add_file is reading, between
\* two of its reads.
ModifySource ==
  /\ pc \in { "add_store", "add_record" }
  /\ edits < MaxEdits
  /\ edits' = edits + 1
  /\ tree' = [ tree EXCEPT ![cur.full].bytes = Append(@, 0) ]
  /\ UNCHANGED << pc, exc, target, wheel_zip, records, work, cur, pkg, venv, world,
                  run, first_zip, arg, out >>


\* ---------------------------------------------------------- metadata members

\* wheel_file_template, filled in by _write_wheel_file.
WheelFileText(build, python, env) ==
  << << "Wheel-Version", "1.0" >>,
     << "Generator", "poetry" >>,
     << "Root-Is-Purelib", PureLib(build) >>,
     << "Tag", Tag(build, python, env) >> >>

\* _write_metadata_file: the mandatory fields, then Requires-Python.
MetadataFileText(python) ==
  << << "Metadata-Version", "2.1" >>,
     << "Name", "my-package" >>,
     << "Version", "1.2.3" >>,
     << "Requires-Python", python >> >>

\* _write_entry_points: the group, then its entry points sorted.
EntryPointsText ==
  << << "[console_scripts]", "" >>,
     << "my-2nd-script", "my_package:main2" >>,
     << "my-script", "my_package:main" >> >>

\* One line of RECORD for an entry of _records.
RecordLine(r) == << r[1], << "sha256=", r[2] >>, << r[3] >> >>

\* RECORD's line for itself: no hash, no size.
RecordSelfLine == << InDistInfo("RECORD"), <<>>, <<>> >>

\* What write_record writes to the buffer.
RecordText(recs) == [ i \in 1..Len(recs) |-> RecordLine(recs[i]) ] \o << RecordSelfLine >>

\* ---------------------------------------------------------------- make_in

\* tempfile.mkstemp(suffix=".whl", dir=directory), os.close(fd)
Mkstemp ==
  /\ pc = "mkstemp"
  /\ target' = [ target EXCEPT !.temp = "empty" ]
  /\ pc' = "open"
  /\ UNCHANGED << exc, wheel_zip, records, work, cur, tree, pkg, venv, world, edits,
                  run, first_zip, arg, out >>

\* open(temp_path, "w+b") and WheelBuilder.__init__: an empty _records and a
\* ZipFile open for writing on the temporary file.
OpenBuilder ==
  /\ pc = "open"
  /\ target' = [ target EXCEPT !.temp = "partial" ]
  /\ wheel_zip' = <<>>
  /\ records' = <<>>
  /\ pc' = "_build"
  /\ UNCHANGED << exc, work, cur, tree, pkg, venv, world, edits, run, first_zip,
                  arg, out >>

\* What shutil.copytree brings into the package from build/lib.*.
BuiltFiles(clock) == TreeOf({ << "my_package", "ext.so" >> }, clock)

\* _build: nothing without a build setting; else the external build, and the
\* built packages copied over the project's.  rmtree raises when the project
\* has no directory of the built package's name at its root.
NativeBuild ==
  /\ pc = "_build"
  /\ IF ~Truthy(pkg.build) \/ ~pkg.lib
     THEN pc' = "copy_module" /\ UNCHANGED << exc, tree >>
     ELSE IF pkg.layout = "package"
     THEN pc' = "copy_module" /\ tree' = BuiltFiles(world.clock) @@ tree /\ UNCHANGED exc
     ELSE pc' = "finally" /\ exc' = "_build" /\ UNCHANGED tree
  /\ UNCHANGED << target, wheel_zip, records, work, cur, pkg, venv, world, edits,
                  run, first_zip, arg, out >>

\* Builder.find_files_to_add: the project's files, in any order.
FindFilesToAdd == Perms(DOMAIN tree)

\* self._module.is_package()
IsPackage == pkg.layout # "module"

\* self._module.is_in_src()
IsInSrc == pkg.layout = "src"

\* copy_module without its sorted(): the files as the discovery gave them.
VisitOrder_AsGiven(files) == files

\* The order in which copy_module visits the files it was given.
VisitOrder(files) == Sorted(files)

\* copy_module up to its loop: the files to visit, or the one module file.
CopyModule ==
  /\ pc = "copy_module"
  /\ IF IsPackage
     THEN /\ \E files \in FindFilesToAdd : work' = VisitOrder(files)
          /\ pc' = "copy_loop"
          /\ UNCHANGED cur
     ELSE /\ cur' = [ NoCall EXCEPT !.full = << "module1.py" >>,
                                    !.rel = << "module1.py" >>,
                                    !.ret = "write_metadata" ]
          /\ pc' = "add_file"
          /\ UNCHANGED work
  /\ UNCHANGED << exc, target, wheel_zip, records, tree, pkg, venv, world, edits,
                  run, first_zip, arg, out >>

\* file.relative_to(src) when the module is under src/, else file itself.
Relocated(file) ==
  IF IsInSrc /\ IsBelow(file, << "src" >>) THEN RelativeTo(file, << "src" >>) ELSE file

\* full_path.relative_to(self._path) == Path(file.name)
IsTopmost(file) == file = << BaseName(Relocated(file)) >>

\* One round of copy_module's loop.
CopyNext ==
  /\ pc = "copy_loop"
  /\ IF work = <<>>
     THEN pc' = "write_metadata" /\ UNCHANGED << work, cur >>
     ELSE /\ work' = Tail(work)
          /\ IF IsTopmost(Head(work))
             THEN UNCHANGED << pc, cur >>
             ELSE /\ cur' = [ NoCall EXCEPT !.full = Head(work),
                                            !.rel = Relocated(Head(work)),
                                            !.ret = "copy_loop" ]
                  /\ pc' = "add_file"
  /\ UNCHANGED << exc, target, wheel_zip, records, tree, pkg, venv, world, edits,
                  run, first_zip, arg, out >>

\* self._path.glob(base + "*")
Glob(base) == { p \in DOMAIN tree : Len(p) = 1 /\ p[1] \in GlobMatches(base) }

\* The licence loops with their bases the other way round.
LicenceOrder_LicenseFirst(c, l) == Sorted(l) \o Sorted(c)

\* for base in ("COPYING", "LICENSE"): for path in sorted(glob(base + "*"))
LicenceOrder(c, l) == Sorted(c) \o Sorted(l)

\* write_metadata up to its licence loop: entry_points.txt when the project
\* declares scripts or plugins, then the licence files to visit.
WriteEntryPoints ==
  /\ pc = "write_metadata"
  /\ IF pkg.scripts
     THEN WriteToZip(InDistInfo("entry_points.txt"), EntryPointsText)
     ELSE UNCHANGED << wheel_zip, records >>
  /\ \E c \in Perms(Glob("COPYING")) : \E l \in Perms(Glob("LICENSE")) :
       work' = LicenceOrder(c, l)
  /\ pc' = "licenses"
  /\ UNCHANGED << exc, target, cur, tree, pkg, venv, world, edits, run, first_zip,
                  arg, out >>

\* One round of write_metadata's licence loop.
LicenseNext ==
  /\ pc = "licenses"
  /\ IF work = <<>>
     THEN pc' = "wheel" /\ UNCHANGED << work, cur >>
     ELSE /\ work' = Tail(work)
          /\ cur' = [ NoCall EXCEPT !.full = Head(work),
                                    !.rel = InDistInfo(BaseName(Head(work))),
                                    !.ret = "licenses" ]
          /\ pc' = "add_file"
  /\ UNCHANGED << exc, target, wheel_zip, records, tree, pkg, venv, world, edits,
                  run, first_zip, arg, out >>

WriteWheelFile ==
  /\ pc = "wheel"
  /\ WriteToZip(InDistInfo("WHEEL"), WheelFileText(pkg.build, pkg.python, venv))
  /\ pc' = "metadata"
  /\ UNCHANGED << exc, target, work, cur, tree, pkg, venv, world, edits, run,
                  first_zip, arg, out >>

WriteMetadataFile ==
  /\ pc = "metadata"
  /\ WriteToZip(InDistInfo("METADATA"), MetadataFileText(pkg.python))
  /\ pc' = "write_record"
  /\ UNCHANGED << exc, target, work, cur, tree, pkg, venv, world, edits, run,
                  first_zip, arg, out >>

WriteRecord ==
  /\ pc = "write_record"
  /\ WriteToZip(InDistInfo("RECORD"), RecordText(records))
  /\ pc' = "finally"
  /\ UNCHANGED << exc, target, work, cur, tree, pkg, venv, world, edits, run,
                  first_zip, arg, out >>

\* The finally of build: self._wheel_zip.close(); then the with-block closes
\* the file.  After a step raised, the exception goes on to make_in's except.
CloseZip ==
  /\ pc = "finally"
  /\ target' = [ target EXCEPT !.temp = "complete" ]
  /\ pc' = IF exc = "" THEN "exists" ELSE "except"
  /\ UNCHANGED << exc, wheel_zip, records, work, cur, tree, pkg, venv, world, edits,
                  run, first_zip, arg, out >>

\* wheel_path.exists()
CheckExists ==
  /\ pc = "exists"
  /\ pc' = IF target.final # "absent" THEN "unlink" ELSE "rename"
  /\ UNCHANGED << exc, target, wheel_zip, records, work, cur, tree, pkg, venv, world,
                  edits, run, first_zip, arg, out >>

\* os.unlink(str(wheel_path))
UnlinkOld ==
  /\ pc = "unlink"
  /\ target' = [ target EXCEPT !.final = "absent" ]
  /\ pc' = "rename"
  /\ UNCHANGED << exc, wheel_zip, records, work, cur, tree, pkg, venv, world, edits,
                  run, first_zip, arg, out >>

\* os.rename(temp_path, str(wheel_path))
Rename ==
  /\ pc = "rename"
  /\ target' = [ temp |-> "absent", final |-> target.temp ]
  /\ pc' = "done"
  /\ UNCHANGED << exc, wheel_zip, records, work, cur, tree, pkg, venv, world, edits,
                  run, first_zip, arg, out >>

\* The steps of build, inside its try.
BuildSteps ==
  { "copy_module", "copy_loop", "add_file", "add_store", "add_record",
    "write_metadata", "licenses", "wheel", "metadata", "write_record" }

\* A step fails (an I/O error, a failed build command): inside build the
\* finally runs next, elsewhere make_in's except.
Raise ==
  /\ exc = ""
  /\ \/ pc \in BuildSteps
     \/ pc = "_build" /\ Truthy(pkg.build)
     \/ pc \in { "open", "finally", "unlink", "rename" }
  /\ exc' = pc
  /\ pc' = IF pc \in BuildSteps \cup { "_build" } THEN "finally" ELSE "except"
  /\ UNCHANGED << target, wheel_zip, records, work, cur, tree, pkg, venv, world,
                  edits, run, first_zip, arg, out >>

\* An except that re-raises without removing the temporary file.
ExceptHandler_NoUnlink ==
  /\ pc = "except"
  /\ pc' = "raised"
  /\ UNCHANGED << exc, target, wheel_zip, records, work, cur, tree, pkg, venv, world,
                  edits, run, first_zip, arg, out >>

\* except: os.unlink(temp_path); raise
ExceptHandler ==
  /\ pc = "except"
  /\ target' = [ target EXCEPT !.temp = "absent" ]
  /\ pc' = "raised"
  /\ UNCHANGED << exc, wheel_zip, records, work, cur, tree, pkg, venv, world, edits,
                  run, first_zip, arg, out >>

Next ==
  \/ Mkstemp \/ OpenBuilder \/ NativeBuild \/ CopyModule \/ CopyNext
  \/ AddFileHash \/ AddFileStore \/ AddFileRecord \/ ModifySource
  \/ WriteEntryPoints \/ LicenseNext \/ WriteWheelFile \/ WriteMetadataFile
  \/ WriteRecord \/ CloseZip \/ CheckExists \/ UnlinkOld \/ Rename
  \/ Raise \/ ExceptHandler

Spec == Init /\ [][Next]_vars


\* ------------------------------------------------------- claims on make_in

\* What was at the final name before make_in ran.
FinalBefore == IF world.had_old THEN "old" ELSE "absent"

\* The steps between the creation of the temporary file and the end of
\* build: the native build, the copy of the module, the metadata, RECORD and
\* the close of the zip.
BeforeFinalize == BuildSteps \cup { "_build", "finally" }

\* make_in got past build.
Published == pc \in { "exists", "unlink", "rename", "done" }

\* C1: when a step between the creation of the temporary file and the end of
\* build fails, make_in never goes on to publish, what was at the final name
\* stays as it was (nothing is created there, an old archive is untouched),
\* and once the exception has left make_in the temporary file is gone.
C1_FailureLeavesNoTrace ==
  exc \in BeforeFinalize =>
    /\ ~Published
    /\ target.final = FinalBefore
    /\ pc = "raised" => target.temp = "absent"

\* C1's case: RECORD's write failed over an old archive and the exception
\* left make_in.
C1_Witness == pc = "raised" /\ exc = "write_record" /\ world.had_old

\* C2: with an archive at the final name, the final name holds the complete
\* old archive or the complete new one in every state of make_in.
C2_AtomicReplace == world.had_old => target.final \in { "old", "complete" }

\* The lines of the RECORD member, decoded, when RECORD is the last member.
RecordPath == InDistInfo("RECORD")

LastMember == wheel_zip[Len(wheel_zip)]

RecordLines == [ i \in 1..Len(LastMember.data) |-> LastMember.data[i][2] ]

C4_RoundTripHash ==
  Published =>
    \A i \in 1..(Len(wheel_zip) - 1) :
      /\ RecordLines[i][2] = << "sha256=", HashDigest(Sha256(wheel_zip[i].data)) >>
      /\ RecordLines[i][3] = << Len(wheel_zip[i].data) >>

\* The kind of a member, by its path.
MemberKind(m) ==
  IF m.path[1] # DistInfo THEN "module"
  ELSE IF m.path[2] \in { "entry_points.txt", "WHEEL", "METADATA", "RECORD" }
  THEN m.path[2]
  ELSE "license"

\* The order the specification gives: module files, licence files, the
\* metadata members, RECORD.
RankAsSpecified(m) ==
  CASE MemberKind(m) = "module" -> 0
    [] MemberKind(m) = "license" -> 1
    [] MemberKind(m) = "RECORD" -> 3
    [] OTHER -> 2

\* The order of the code: module files, entry_points.txt, licence files,
\* WHEEL, METADATA, RECORD.
RankInCode(m) ==
  CASE MemberKind(m) = "module" -> 0
    [] MemberKind(m) = "entry_points.txt" -> 1
    [] MemberKind(m) = "license" -> 2
    [] MemberKind(m) = "WHEEL" -> 3
    [] MemberKind(m) = "METADATA" -> 4
    [] MemberKind(m) = "RECORD" -> 5

\* Members of the same kind are in sorted order of their paths.
SortedWithinKinds ==
  \A i \in 1..Len(wheel_zip) : \A j \in 1..Len(wheel_zip) :
    i < j /\ MemberKind(wheel_zip[i]) = MemberKind(wheel_zip[j])
      => PathLess(wheel_zip[i].path, wheel_zip[j].path)

\* C6 as stated: module files sorted, then licence files sorted, then the
\* metadata members, then RECORD; no metadata member before a licence file.
C6_OrderAsSpecified ==
  /\ \A i \in 1..Len(wheel_zip) : \A j \in 1..Len(wheel_zip) :
       i < j => RankAsSpecified(wheel_zip[i]) <= RankAsSpecified(wheel_zip[j])
  /\ SortedWithinKinds

\* C6 amended: module files sorted, then entry_points.txt when present,
\* then licence files sorted, then WHEEL, METADATA, RECORD; nothing is
\* written after RECORD, and a published wheel ends with WHEEL, METADATA,
\* RECORD.
C6_OrderInCode ==
  /\ \A i \in 1..Len(wheel_zip) : \A j \in 1..Len(wheel_zip) :
       i < j => RankInCode(wheel_zip[i]) <= RankInCode(wheel_zip[j])
  /\ SortedWithinKinds
  /\ Published =>
       /\ Len(wheel_zip) >= 3
       /\ MemberKind(wheel_zip[Len(wheel_zip) - 2]) = "WHEEL"
       /\ MemberKind(wheel_zip[Len(wheel_zip) - 1]) = "METADATA"
       /\ MemberKind(LastMember) = "RECORD"
       /\ pkg.scripts <=> \E i \in 1..Len(wheel_zip) :
                            MemberKind(wheel_zip[i]) = "entry_points.txt"

\* C6's case: a published wheel with two module files, entry_points.txt and
\* two licence files.
C6_Witness ==
  /\ pc = "done"
  /\ pkg.scripts
  /\ Cardinality({ i \in 1..Len(wheel_zip) : MemberKind(wheel_zip[i]) = "license" }) = 2
  /\ Cardinality({ i \in 1..Len(wheel_zip) : MemberKind(wheel_zip[i]) = "module" }) >= 2

\* The tags of a package without a native build.
UniversalTags ==
  { << "p", "y", "3", "-", "n", "o", "n", "e", "-", "a", "n", "y" >>,
    << "p", "y", "2", ".", "p", "y", "3", "-", "n", "o", "n", "e", "-", "a", "n", "y" >> }

\* The WHEEL members of the container, their lines decoded.
WheelMembers ==
  { [ pure |-> wheel_zip[i].data[3][2][2], tag |-> wheel_zip[i].data[4][2][2] ] :
      i \in { k \in 1..Len(wheel_zip) : MemberKind(wheel_zip[k]) = "WHEEL" } }

\* C10: Root-Is-Purelib in WHEEL is "true" exactly when the Tag line is a
\* universal tag, which is exactly when _build ran no build step.
C10_PurityAgreesWithTag ==
  \A w \in WheelMembers :
    /\ w.pure = "true" <=> w.tag \in UniversalTags
    /\ w.pure = "true" <=> ~Truthy(pkg.build)


\* ------------------------------------------------------- two builds in a row

\* The same project is built again: the first wheel is kept for comparison
\* and is now the archive at the final name; the clock has moved on, any
\* source file may have been touched (a new mtime, the same bytes and mode),
\* and the discovery may list the files in another order.
Rerun ==
  /\ pc = "done"
  /\ run = 1
  /\ run' = 2
  /\ first_zip' = wheel_zip
  /\ world' = [ had_old |-> TRUE, clock |-> world.clock + 1 ]
  /\ \E touched \in SUBSET (DOMAIN tree) :
       tree' = [ p \in DOMAIN tree |->
                 IF p \in touched THEN [ tree[p] EXCEPT !.mtime = world.clock + 1 ]
                 ELSE tree[p] ]
  /\ target' = [ temp |-> "absent", final |-> "old" ]
  /\ wheel_zip' = <<>>
  /\ records' = <<>>
  /\ pc' = "mkstemp"
  /\ UNCHANGED << exc, work, cur, pkg, venv, edits, arg, out >>

NextRepro ==
  \/ Mkstemp \/ OpenBuilder \/ NativeBuild \/ CopyModule \/ CopyNext
  \/ AddFileHash \/ AddFileStore \/ AddFileRecord
  \/ WriteEntryPoints \/ LicenseNext \/ WriteWheelFile \/ WriteMetadataFile
  \/ WriteRecord \/ CloseZip \/ CheckExists \/ UnlinkOld \/ Rename
  \/ ExceptHandler \/ Rerun

SpecRepro == Init /\ [][NextRepro]_vars

\* C5: the second build of the same package and source files, with the files
\* discovered in any order, at a later time and with other modification
\* times, writes the same members as the first: the same paths in the same
\* order with the same bytes, permission attributes and timestamps, RECORD
\* included; and every timestamp is one of the two fixed dates of the code.
C5_SameWheelTwice ==
  /\ run = 2 /\ Published => wheel_zip = first_zip
  /\ \A i \in 1..Len(wheel_zip) :
       wheel_zip[i].date_time \in { ZipInfoDefaultDate, FixedDate }

\* C5's case: the second build is done, after a build with module files, and
\* a source file was touched in between.
C5_Witness ==
  /\ run = 2 /\ pc = "done" /\ Len(wheel_zip) >= 6
  /\ \E p \in DOMAIN tree : tree[p].mtime = world.clock


\* ------------------------------------------------- the tag resolver, alone

\* No build is running: the state of make_in at rest.
AtRest ==
  /\ exc = ""
  /\ target = [ temp |-> "absent", final |-> "absent" ]
  /\ wheel_zip = <<>>
  /\ records = <<>>
  /\ work = <<>>
  /\ cur = NoCall
  /\ tree = TreeOf({}, 0)
  /\ pkg = [ build |-> "None", python |-> AnyPython, scripts |-> FALSE,
             layout |-> "module", lib |-> FALSE ]
  /\ venv \in Venvs
  /\ world = [ had_old |-> FALSE, clock |-> 0 ]
  /\ edits = 0
  /\ run = 1
  /\ first_zip = <<>>

\* The bounds a declared interpreter constraint may have.
Endpoints == { 0, 20, 27, 28, 30, 34, 36, 40, Unbounded }

Ranges == { r \in [ lo : Endpoints, hi : Endpoints ] : r.lo < r.hi }

\* The declared constraints: one range, or the union of two.
Constraints == { { r, s } : r \in Ranges, s \in Ranges }

\* The answers of the target environment.
TagVenvs ==
  [ impl_name : { << "c", "p" >> },
    impl_ver : { << "3", "6" >> },
    abi : { << "C", "P", "3", "6", "m" >>, PyNone },
    platform : { << "m", "a", "c", "-", "1", "0", ".", "9" >>, << "l", "_", "x" >> } ]

InitTag ==
  /\ pc = "tag_in"
  /\ arg \in [ build : BuildSettings, python : Constraints, venv : TagVenvs ]
  /\ out = <<>>
  /\ AtRest

\* self.tag is read.
ResolveTag ==
  /\ pc = "tag_in"
  /\ out' = Tag(arg.build, arg.python, arg.venv)
  /\ pc' = "tag_out"
  /\ UNCHANGED << exc, target, wheel_zip, records, work, cur, tree, pkg, venv, world,
                  edits, run, first_zip, arg >>

SpecTag == InitTag /\ [][ResolveTag]_vars

\* The constraint admits version v.
Admits(c, v) == \E r \in c : r.lo <= v /\ v < r.hi

\* The constraint admits a version of the 2.x series.
AdmitsPython2 == \E v \in Versions : 20 <= v /\ v < 30 /\ Admits(arg.python, v)

Py2Py3NoneAny ==
  << "p", "y", "2", ".", "p", "y", "3", "-", "n", "o", "n", "e", "-", "a", "n", "y" >>

Py3NoneAny == << "p", "y", "3", "-", "n", "o", "n", "e", "-", "a", "n", "y" >>

\* The platform with each "." and "-" replaced by "_".
PlatformField(v) ==
  [ i \in 1..Len(v.platform) |->
      IF v.platform[i] \in { ".", "-" } THEN "_" ELSE v.platform[i] ]

\* The ABI in lower case, "none" when the environment has none.
AbiField(v) ==
  IF v.abi = PyNone THEN << "n", "o", "n", "e" >>
  ELSE [ i \in 1..Len(v.abi) |-> LowerChar(v.abi[i]) ]

\* C7: without a native build step the tag is py2.py3-none-any when the
\* declared constraint admits a version of the 2.x series and py3-none-any
\* otherwise; with one it is {impl}{version}-{abi in lower case}-{platform
\* with "." and "-" replaced by "_"} of the target environment.
C7_TagValue ==
  pc = "tag_out" =>
    IF Truthy(arg.build)
    THEN out = arg.venv.impl_name \o arg.venv.impl_ver \o << "-" >>
                 \o AbiField(arg.venv) \o << "-" >> \o PlatformField(arg.venv)
    ELSE out = IF AdmitsPython2 THEN Py2Py3NoneAny ELSE Py3NoneAny

\* C7's case: a pure package whose constraint admits some but not all of the
\* 2.x series got py2.py3-none-any.
C7_Witness ==
  /\ pc = "tag_out" /\ ~Truthy(arg.build)
  /\ arg.python = { [lo |-> 27, hi |-> 28] }
  /\ out = Py2Py3NoneAny


\* --------------------------------------------------- file name normalisation

\* The longest package name of the model.
MaxNameLen == 3

\* The characters of the model: ASCII letters, a digit, ".", "_", and "-",
\* " ", "!" outside \w; and one letter outside ASCII, U+00E9.
Letters == { "a", "M" }

Digits == { "1" }

NonAsciiLetters == { "e-acute" }

Chars == Letters \cup Digits \cup NonAsciiLetters \cup { ".", "_", "-", " ", "!" }

\* \w under re.UNICODE: the letters of any script, the digits, and "_".
IsWord(c) == c \in Letters \cup Digits \cup NonAsciiLetters \cup { "_" }

\* Whether [^\w\d.] leaves c alone.
Kept(c) == IsWord(c) \/ c \in Digits \/ c = "."

\* The rest of s after the run of characters [^\w\d.]+ matches at its head.
RECURSIVE AfterRun(_)
AfterRun(s) == IF s = <<>> \/ Kept(Head(s)) THEN s ELSE AfterRun(Tail(s))

\* A normalisation that replaces each character outside the class, not each
\* run of them: the pattern without its "+".
RECURSIVE Escape_EachChar(_)
Escape_EachChar(s) ==
  IF s = <<>> THEN <<>>
  ELSE << IF Kept(Head(s)) THEN Head(s) ELSE "_" >> \o Escape_EachChar(Tail(s))

\* re.sub("[^\w\d.]+", "_", s, flags=re.UNICODE)
RECURSIVE Escape(_)
Escape(s) ==
  IF s = <<>> THEN <<>>
  ELSE IF Kept(Head(s)) THEN << Head(s) >> \o Escape(Tail(s))
  ELSE << "_" >> \o Escape(AfterRun(Tail(s)))

\* WheelBuilder.wheel_filename, as its three fields and the extension.
WheelFilename(name, version, tag) ==
  [ name |-> Escape(name), version |-> Escape(version), tag |-> tag, ext |-> ".whl" ]

\* WheelBuilder.dist_info_name, as its two fields and the suffix.
DistInfoName(distribution, version) ==
  [ name |-> Escape(distribution), version |-> Escape(version), ext |-> ".dist-info" ]

\* The names of the model: every string of at most MaxNameLen characters.
NameStrings == UNION { [ 1..n -> Chars ] : n \in 0..MaxNameLen }

\* The version strings of the model: 1.1, 1.1-a, 1!1 and 1 _1.
VersionStrings ==
  { << "1", ".", "1" >>, << "1", ".", "1", "-", "a" >>, << "1", "!", "1" >>,
    << "1", " ", "_", "1" >> }

InitName ==
  /\ pc = "name_in"
  /\ arg \in [ name : NameStrings, version : VersionStrings ]
  /\ out = <<>>
  /\ AtRest

\* wheel_filename and dist_info are read.
NormalizeNames ==
  /\ pc = "name_in"
  /\ out' = [ wheel |-> WheelFilename(arg.name, arg.version, Py3NoneAny),
              dist_info |-> DistInfoName(arg.name, arg.version) ]
  /\ pc' = "name_out"
  /\ UNCHANGED << exc, target, wheel_zip, records, work, cur, tree, pkg, venv, world,
                  edits, run, first_zip, arg >>

SpecName == InitName /\ [][NormalizeNames]_vars

\* [A-Za-z0-9.]
AsciiKept(c) == c \in Letters \cup Digits \cup { "." }

\* The positions of s that survive when the runs outside a class collapse:
\* the characters of the class, and the first character of each run.
Survivors(s, InClass(_)) ==
  { i \in 1..Len(s) : InClass(s[i]) \/ i = 1 \/ InClass(s[i - 1]) }

\* s with every maximal run of characters outside the class collapsed to one
\* "_" and the characters of the class unchanged.
Collapsed(s, InClass(_)) ==
  LET keep == Survivors(s, InClass)
      nth(k) == CHOOSE i \in keep : Cardinality({ j \in keep : j < i }) = k - 1
  IN  [ k \in 1..Cardinality(keep) |->
          IF InClass(s[nth(k)]) THEN s[nth(k)] ELSE "_" ]

NoAdjacentUnderscores(s) == \A i \in 1..(Len(s) - 1) : ~(s[i] = "_" /\ s[i + 1] = "_")

\* The four normalised fields of the result.
NameFields ==
  { << arg.name, out.wheel.name >>, << arg.version, out.wheel.version >>,
    << arg.name, out.dist_info.name >>, << arg.version, out.dist_info.version >> }

\* C8 as stated: each name and version field is its input with every
\* maximal run of characters outside [A-Za-z0-9.] collapsed to one "_"; it
\* has no two adjacent "_" and no character outside [A-Za-z0-9._].
C8_AsciiNormalisation ==
  pc = "name_out" =>
    \A f \in NameFields :
      /\ f[2] = Collapsed(f[1], AsciiKept)
      /\ NoAdjacentUnderscores(f[2])
      /\ \A i \in 1..Len(f[2]) : AsciiKept(f[2][i]) \/ f[2][i] = "_"

\* C8 amended: each name and version field is its input with every maximal
\* run of characters outside [\w.] (\w under re.UNICODE: letters of any
\* script, digits and "_") collapsed to one "_" and every other character
\* unchanged; the result has no character outside [\w.].
C8_WordNormalisation ==
  pc = "name_out" =>
    \A f \in NameFields :
      /\ f[2] = Collapsed(f[1], Kept)
      /\ \A i \in 1..Len(f[2]) : Kept(f[2][i])

\* C8's case: a name that ends in a run of two characters outside the class,
\* normalised to one "_".
C8_Witness ==
  /\ pc = "name_out"
  /\ arg.name = << "M", " ", "!" >>
  /\ out.wheel.name = << "M", "_" >>
  /\ out.dist_info.name = << "M", "_" >>


\* -------------------------------------------------- dependency projection

\* The longest dependency list of the model.
MaxDeps == 2

\* The dependency names, in the order of their rendered strings.
DepNames == << "A", "B", "C" >>

DepCode(n) == CHOOSE i \in 1..Len(DepNames) : DepNames[i] = n

ExtraNames == { "bar", "baz" }

\* The interpreter restrictions of the model: none, "~2.7 || ^3.6" and
\* "~2.7 || ^3.4".
PythonVersions ==
  { AnyPython,
    { [lo |-> 27, hi |-> 28], [lo |-> 36, hi |-> 40] },
    { [lo |-> 27, hi |-> 28], [lo |-> 34, hi |-> 40] } }

\* A dependency: its name, the optional flag and the interpreter versions
\* it is restricted to.
Dependencies == [ name : Range(DepNames), optional : BOOLEAN, python : PythonVersions ]

\* The dependency lists of the model: each name at most once.
DependencyLists ==
  { l \in UNION { [ 1..n -> Dependencies ] : n \in 0..MaxDeps } :
      \A i \in 1..Len(l) : \A j \in 1..Len(l) : l[i].name = l[j].name => i = j }

\* The rendered requirement of a dependency: its name and its constraint.
Requirement(d) == << d.name, ">=1.0,<2.0" >>

\* The marker expression of an interpreter restriction: its ranges in
\* ascending order, each a conjunction of >= and <; none when unrestricted.
Marker(python) ==
  IF python = AnyPython THEN <<>>
  ELSE CHOOSE m \in Perms(python) : \A i \in 1..(Len(m) - 1) : m[i].lo < m[i + 1].lo

\* The key of a conditional dependency: "<extra>", "<extra>:<marker>" or
\* ":<marker>".
GroupKey(extra, marker) == IF marker = <<>> THEN << extra >> ELSE << extra, ":", marker >>

AddToGroup(groups, k, r) ==
  IF k \in DOMAIN groups THEN [ groups EXCEPT ![k] = Append(@, r) ]
  ELSE groups @@ (k :> << r >>)

RECURSIVE InsertReq(_, _)
InsertReq(r, s) ==
  IF s = <<>> THEN << r >>
  ELSE IF DepCode(Head(s)[1]) < DepCode(r[1]) THEN << Head(s) >> \o InsertReq(r, Tail(s))
  ELSE << r >> \o s

RECURSIVE SortReqs(_)
SortReqs(s) == IF s = <<>> THEN <<>> ELSE InsertReq(Head(s), SortReqs(Tail(s)))

\* A projection that also lists a marker-restricted dependency as plain.
ProjectOne_AlsoPlain(d, extra, acc) ==
  LET r == Requirement(d)
      m == Marker(d.python)
  IN  IF d.optional /\ extra = "" THEN acc
      ELSE IF extra = "" /\ m = <<>> THEN [ acc EXCEPT !.plain = Append(@, r) ]
      ELSE [ plain |-> IF extra = "" THEN Append(acc.plain, r) ELSE acc.plain,
             grouped |-> AddToGroup(acc.grouped, GroupKey(extra, m), r) ]

\* One dependency projected: left out when optional and in no extra, plain
\* when in no extra and unrestricted, else under its key.
ProjectOne(d, extra, acc) ==
  LET r == Requirement(d)
      m == Marker(d.python)
  IN  IF d.optional /\ extra = "" THEN acc
      ELSE IF extra = "" /\ m = <<>> THEN [ acc EXCEPT !.plain = Append(@, r) ]
      ELSE [ acc EXCEPT !.grouped = AddToGroup(@, GroupKey(extra, m), r) ]

RECURSIVE ProjectAll(_, _, _)
ProjectAll(deps, extras, acc) ==
  IF deps = <<>> THEN acc
  ELSE ProjectAll(Tail(deps), extras, ProjectOne(Head(deps), extras[Head(deps).name], acc))

\* convert_dependencies(package, dependencies): extras gives, for each
\* dependency name, the extra of the package that names it, "" when none.
ConvertDependencies(extras, deps) ==
  LET acc == ProjectAll(deps, extras, [ plain |-> <<>>, grouped |-> <<>> ])
  IN  [ plain |-> SortReqs(acc.plain),
        grouped |-> [ k \in DOMAIN acc.grouped |-> SortReqs(acc.grouped[k]) ] ]

InitDeps ==
  /\ pc = "deps_in"
  /\ arg \in [ extras : [ Range(DepNames) -> ExtraNames \cup { "" } ],
               deps : DependencyLists ]
  /\ out = <<>>
  /\ AtRest

ProjectDependencies ==
  /\ pc = "deps_in"
  /\ out' = ConvertDependencies(arg.extras, arg.deps)
  /\ pc' = "deps_out"
  /\ UNCHANGED << exc, target, wheel_zip, records, work, cur, tree, pkg, venv, world,
                  edits, run, first_zip, arg >>

SpecDeps == InitDeps /\ [][ProjectDependencies]_vars

\* How often r is listed in the sequence s.
Count(r, s) == Cardinality({ i \in 1..Len(s) : s[i] = r })

\* The keys under which r is listed.
KeysOf(r) == { k \in DOMAIN out.grouped : Count(r, out.grouped[k]) > 0 }

\* C9: a dependency in no extra and without interpreter restriction is
\* listed once in plain and in no group; one in an extra or restricted is
\* listed once under its one key ("<extra>", "<extra>:<marker>" or
\* ":<marker>") and not in plain; an optional dependency no extra names is
\* listed nowhere; nothing else is listed, no group is empty, and plain is
\* sorted.
C9_OnePlaceEach ==
  pc = "deps_out" =>
    /\ \A i \in 1..Len(arg.deps) :
         LET d == arg.deps[i]
             r == Requirement(d)
             extra == arg.extras[d.name]
             restricted == d.python # AnyPython
             key == IF restricted THEN << extra, ":", Marker(d.python) >> ELSE << extra >>
         IN  IF d.optional /\ extra = ""
             THEN Count(r, out.plain) = 0 /\ KeysOf(r) = {}
             ELSE IF extra = "" /\ ~restricted
             THEN Count(r, out.plain) = 1 /\ KeysOf(r) = {}
             ELSE /\ Count(r, out.plain) = 0
                  /\ KeysOf(r) = { key }
                  /\ Count(r, out.grouped[key]) = 1
    /\ \A i \in 1..Len(out.plain) : \E j \in 1..Len(arg.deps) :
         out.plain[i] = Requirement(arg.deps[j])
    /\ \A k \in DOMAIN out.grouped :
         /\ out.grouped[k] # <<>>
         /\ \A i \in 1..Len(out.grouped[k]) : \E j \in 1..Len(arg.deps) :
              out.grouped[k][i] = Requirement(arg.deps[j])
    /\ \A i \in 1..(Len(out.plain) - 1) :
         DepCode(out.plain[i][1]) < DepCode(out.plain[i + 1][1])

\* C9's case: of two dependencies, one is restricted and in no extra and
\* the other is optional, restricted and in an extra; each got its own key.
C9_Witness ==
  /\ pc = "deps_out"
  /\ Len(arg.deps) = 2
  /\ arg.deps[1].name = "C" /\ ~arg.deps[1].optional /\ arg.extras["C"] = ""
  /\ arg.deps[1].python # AnyPython
  /\ arg.deps[2].name = "A" /\ arg.deps[2].optional /\ arg.extras["A"] = "baz"
  /\ arg.deps[2].python # AnyPython /\ arg.deps[2].python # arg.deps[1].python
  /\ Cardinality(DOMAIN out.grouped) = 2
  /\ out.plain = <<>>


====
